---------------------------- MODULE Spec2Model ----------------------------
(***************************************************************************)
(* A model of the Notion -> Jira migration scripts.                        *)
(*                                                                         *)
(*   src/upload_to_jira.py       filter_tasks, TaskMapper, migrate_tasks   *)
(*   src/extract_from_notion.py  paginate_query, paginate_list_endpoint,   *)
(*                               extract_all_tasks, normalize_task         *)
(*                                                                         *)
(* Python strings are sequences of one-character strings, so that strip,   *)
(* lower, split and slicing are computed and not assumed.  Python values   *)
(* that may be None, a string, a list or a dict are tagged records         *)
(* ([t |-> "none"], [t |-> "str", v |-> ...], ...).                         *)
(***************************************************************************)
EXTENDS Integers, Sequences, FiniteSets, TLC

VARIABLES
    \* ---- migrate_tasks (src/upload_to_jira.py) ----
    tasks,          \* the argument `tasks`: a list of FlatTask records
    dry_run,        \* the argument `dry_run`
    pc,             \* position of migrate_tasks
    i,              \* index of the record of the for loop (1-based)
    mapped,         \* TaskMappingResult of the current record
    field_ids,      \* resolved custom field ids
    anchor_key,     \* rank anchor (0 is None)
    key,            \* key of the issue of the current record (0: none yet)
    ci,             \* index of the next comment of mapped.comments
    transitions,    \* the list get_transitions returned for the current issue
    created_keys,   \* the list migrate_tasks returns
    error,          \* the exception that left migrate_tasks ("" : none)
    warnings,       \* the WARN lines printed, as <<record, step>>
    calls,          \* every HTTP call made to the destination, in order
    issues,         \* number of issues that exist in the destination project
    \* ---- the paginators and extract_all_tasks (src/extract_from_notion.py) ----
    mode,           \* the function that runs: "paginate_query",
                    \* "paginate_list_endpoint" or "extract_all_tasks"
    x_pc,           \* its position
    cursor,         \* start_cursor of paginate_query, cursor of paginate_list_endpoint
    results,        \* results of paginate_query, out of paginate_list_endpoint
    first_error,    \* extract_all_tasks: the RuntimeError caught at line 76
    data_sources,   \* extract_all_tasks: db["data_sources"]
    ds_k,           \* extract_all_tasks: index of the data source of the for loop
    all_results,    \* extract_all_tasks: all_results
    x_result,       \* the value returned
    x_error,        \* the exception that left the function ("" : none)
    requests,       \* every request sent to the source, in order
    responses,      \* the answer to each request
    source,         \* the answers the source will give, in order, when they
                    \* are fixed beforehand (<<>> : they are not)
    \* ---- a pure function applied to an input ----
    f_pc,           \* "input" before the call, "done" after it
    f_in,           \* the argument
    f_out           \* the value returned

mvars == <<tasks, dry_run, pc, i, mapped, field_ids, anchor_key, key, ci,
           transitions, created_keys, error, warnings, calls, issues>>

xvars == <<mode, x_pc, cursor, results, first_error, data_sources, ds_k,
           all_results, x_result, x_error, requests, responses, source>>

fvars == <<f_pc, f_in, f_out>>

vars == <<mvars, xvars, fvars>>

-----------------------------------------------------------------------------
(* Bounds of the model *)

MaxTasks == 2
MaxExisting == 1
MaxRequests == 4

-----------------------------------------------------------------------------
(* Python string helpers *)

IsSpace(c) == c \in {" ", "\t", "\n"}

RECURSIVE LStrip(_)
LStrip(s) == IF s = <<>> THEN s
             ELSE IF IsSpace(Head(s)) THEN LStrip(Tail(s)) ELSE s

RECURSIVE RStrip(_)
RStrip(s) == IF s = <<>> THEN s
             ELSE IF IsSpace(s[Len(s)]) THEN RStrip(SubSeq(s, 1, Len(s) - 1)) ELSE s

\* str.strip()
Strip(s) == RStrip(LStrip(s))

Upper == <<"A","B","C","D","E","F","G","H","I","J","K","L","M",
           "N","O","P","Q","R","S","T","U","V","W","X","Y","Z">>
LowerLetters == <<"a","b","c","d","e","f","g","h","i","j","k","l","m",
                  "n","o","p","q","r","s","t","u","v","w","x","y","z">>

LowerChar(c) == IF \E n \in 1..26 : Upper[n] = c
                THEN LowerLetters[CHOOSE n \in 1..26 : Upper[n] = c]
                ELSE c

\* str.lower()
Lower(s) == [n \in 1..Len(s) |-> LowerChar(s[n])]

\* The pieces of s between the occurrences of the character sep:
\* str.split(sep) for a one-character separator.
RECURSIVE SplitChar(_, _)
SplitChar(s, sep) ==
    IF \A n \in 1..Len(s) : s[n] # sep THEN <<s>>
    ELSE LET p == CHOOSE n \in 1..Len(s) :
                      s[n] = sep /\ \A m \in 1..(n - 1) : s[m] # sep
         IN <<SubSeq(s, 1, p - 1)>> \o SplitChar(SubSeq(s, p + 1, Len(s)), sep)

\* str.splitlines(): as split on the newline, but the empty string has no
\* line and a trailing newline opens no further line.
SplitLines(s) ==
    LET parts == SplitChar(s, "\n")
    IN IF parts[Len(parts)] = <<>> THEN SubSeq(parts, 1, Len(parts) - 1) ELSE parts

RECURSIVE SelectNonEmptyStripped(_)
SelectNonEmptyStripped(ss) ==
    IF ss = <<>> THEN <<>>
    ELSE (IF Strip(Head(ss)) # <<>> THEN <<Strip(Head(ss))>> ELSE <<>>)
         \o SelectNonEmptyStripped(Tail(ss))

-----------------------------------------------------------------------------
(* Program constants of src/upload_to_jira.py *)

STATUS_ID_BACKLOG == "13380"
STATUS_ID_READY == "13383"
STATUS_ID_INPROGRESS == "13381"
STATUS_ID_QA == "13384"
STATUS_ID_DONE == "13382"

\* Python's None where a string or an identifier is optional
None == "None"

\* The keys of TaskMapper.status_map
K_archived == <<"a","r","c","h","i","v","e","d">>
K_done == <<"d","o","n","e">>
K_qa == <<"q","a">>
K_in_progress == <<"i","n"," ","p","r","o","g","r","e","s","s">>
K_ready == <<"r","e","a","d","y"," ","f","o","r"," ",
             "d","e","v","e","l","o","p","m","e","n","t">>
K_backlog == <<"b","a","c","k","l","o","g">>

status_map ==
    (K_archived :> STATUS_ID_DONE) @@ (K_done :> STATUS_ID_DONE) @@
    (K_qa :> STATUS_ID_QA) @@ (K_in_progress :> STATUS_ID_INPROGRESS) @@
    (K_ready :> STATUS_ID_READY) @@ (K_backlog :> STATUS_ID_BACKLOG)

\* The custom fields migrate_tasks resolves, and the values it sets
FieldNames == <<"Oppgavekategori", "Category of work">>
CONST_OPPGAVEKATEGORI == "Markedsinitiativ"
CONST_CATEGORY_OF_WORK == "Strategic intent"

-----------------------------------------------------------------------------
(* A task is a dict: a function from some field names to strings.  A key   *)
(* that is absent, null or "" reads the same everywhere in                 *)
(* upload_to_jira.py (`task.get(k) or ""`, `if not value`), so null is     *)
(* modelled by the absence of the key.                                     *)

\* task.get(k) or ""
GetStr(t, k) == IF k \in DOMAIN t THEN t[k] ELSE <<>>

\* a lookup of the status as written, neither trimmed nor lower-cased
map_status_id_verbatim(src) ==
    IF src = <<>> THEN None
    ELSE IF src \in DOMAIN status_map THEN status_map[src] ELSE None

\* TaskMapper.map_status_id
map_status_id(src) ==
    IF src = <<>> THEN None
    ELSE IF Lower(Strip(src)) \in DOMAIN status_map
         THEN status_map[Lower(Strip(src))]
         ELSE None

\* TaskMapper.map_comments
map_comments(src) ==
    IF src = <<>> THEN <<>> ELSE SelectNonEmptyStripped(SplitLines(src))

-----------------------------------------------------------------------------
(* Labels *)

LABEL_MAX_LEN == 255

Digits == {"0","1","2","3","4","5","6","7","8","9"}

\* the character class [a-z0-9\-_]
IsLabelChar(c) ==
    \/ \E n \in 1..26 : LowerLetters[n] = c
    \/ c \in Digits
    \/ c \in {"-", "_"}

\* re.sub(r"\s+", "-", s): the first character of a whitespace run becomes
\* the hyphen, the rest of the run goes
ReplaceSpaceRuns(s) ==
    LET marked == [n \in 1..Len(s) |->
                      IF ~IsSpace(s[n]) THEN s[n]
                      ELSE IF n > 1 /\ IsSpace(s[n - 1]) THEN "" ELSE "-"]
        Kept(c) == c # ""
    IN SelectSeq(marked, Kept)

\* re.sub(r"[^a-z0-9\-_]+", "", s)
KeepLabelChars(s) == SelectSeq(s, IsLabelChar)

\* s[:n]
Prefix(s, n) == SubSeq(s, 1, IF Len(s) < n THEN Len(s) ELSE n)

normalize_label(s) ==
    Prefix(KeepLabelChars(ReplaceSpaceRuns(Lower(Strip(s)))), LABEL_MAX_LEN)

RECURSIVE MapNormalizeLabel(_)
MapNormalizeLabel(parts) ==
    IF parts = <<>> THEN <<>>
    ELSE <<normalize_label(Head(parts))>> \o MapNormalizeLabel(Tail(parts))

parse_tags(tags) ==
    IF tags = <<>> THEN <<>>
    ELSE MapNormalizeLabel(SelectNonEmptyStripped(SplitChar(tags, ",")))

InSeq(x, seq) == \E n \in 1..Len(seq) : seq[n] = x

\* the body of the inner loop of merge_labels, over one list
RECURSIVE MergeInto(_, _)
MergeInto(out, lst) ==
    IF lst = <<>> THEN out
    ELSE MergeInto(IF Head(lst) # <<>> /\ ~InSeq(Head(lst), out)
                   THEN Append(out, Head(lst)) ELSE out,
                   Tail(lst))

\* the lists joined, nothing left out
merge_labels_concat(l1, l2) == l1 \o l2

merge_labels(l1, l2) == MergeInto(MergeInto(<<>>, l1), l2)

\* task.get("Labels") or task.get("Kodebase / type")
codebase_src(task) ==
    IF GetStr(task, "Labels") # <<>> THEN GetStr(task, "Labels")
    ELSE GetStr(task, "Kodebase / type")

-----------------------------------------------------------------------------
(* TaskMapper.map_task.  The priority and the estimate of the result are   *)
(* left out: they are written into the create payload and read by no step. *)

map_task_raises(task) == Strip(GetStr(task, "Title")) = <<>>

map_task(task) ==
    [summary          |-> Strip(GetStr(task, "Title")),
     description      |-> Strip(GetStr(task, "Description")),
     labels           |-> merge_labels(parse_tags(GetStr(task, "Tags")),
                                       parse_tags(codebase_src(task))),
     target_status_id |-> map_status_id(GetStr(task, "Status")),
     comments         |-> map_comments(GetStr(task, "Comments"))]

NoMapped ==
    [summary |-> <<>>, description |-> <<>>, labels |-> <<>>,
     target_status_id |-> None, comments |-> <<>>]

\* build_create_payload, without priority and timetracking
build_create_payload(m) ==
    [summary |-> m.summary, description |-> m.description, labels |-> m.labels]

\* build_update_fields
build_update_fields(ids) ==
    {<<ids["Oppgavekategori"], CONST_OPPGAVEKATEGORI>>,
     <<ids["Category of work"], CONST_CATEGORY_OF_WORK>>}

\* meta_lines of step 5 of the loop body
meta_lines(task) ==
    (IF GetStr(task, "Ferdigstilt") # <<>>
     THEN <<[label |-> "Original Ferdigstilt", value |-> task["Ferdigstilt"]]>>
     ELSE <<>>)
    \o
    (IF GetStr(task, "Arkiveringsdato") # <<>>
     THEN <<[label |-> "Original Arkiveringsdato", value |-> task["Arkiveringsdato"]]>>
     ELSE <<>>)

\* `if mapped.target_status_id and mapped.target_status_id != STATUS_ID_BACKLOG`
NeedsTransition(m) ==
    m.target_status_id # None /\ m.target_status_id # STATUS_ID_BACKLOG

\* next((t for t in transitions if t["to"]["id"] == target), None): its index, 0 for None
MatchIndex(trs, target) ==
    IF \E n \in 1..Len(trs) : trs[n].to = target
    THEN CHOOSE n \in 1..Len(trs) :
             trs[n].to = target /\ \A m \in 1..(n - 1) : trs[m].to # target
    ELSE 0

-----------------------------------------------------------------------------
(* The inputs of migrate_tasks *)

S_T == <<"T">>
S_blank == <<" ">>
S_Done == <<"D","o","n","e">>
S_QA == <<" ","Q","A"," ">>
S_Backlog == <<"B","a","c","k","l","o","g">>
S_Blocked == <<"B","l","o","c","k","e","d">>
S_ARCHIVED == <<"A","R","C","H","I","V","E","D">>
S_a == <<"a">>
S_a_b == <<"a","\n"," ","\n"," ","b">>
S_date == <<"2","0","2","6","-","0","2","-","0","1">>

TaskSamples ==
    { [Title |-> S_T, Status |-> S_Done, Comments |-> S_a_b, Ferdigstilt |-> S_date],
      [Title |-> S_blank, Status |-> S_Done, Comments |-> S_a],
      [Title |-> S_T, Status |-> S_Backlog],
      [Title |-> S_T, Status |-> S_Blocked, Comments |-> S_a, Arkiveringsdato |-> S_date],
      [Title |-> S_T, Status |-> S_QA],
      [Title |-> S_T],
      [Title |-> S_T, Status |-> S_ARCHIVED, Ferdigstilt |-> S_date,
       Arkiveringsdato |-> S_date] }

SeqsUpTo(S, n) == UNION {[1..k -> S] : k \in 0..n}

\* What GET /transitions may answer for an issue
TR_Done == [id |-> "31", to |-> STATUS_ID_DONE]
TR_Done2 == [id |-> "41", to |-> STATUS_ID_DONE]
TR_QA == [id |-> "21", to |-> STATUS_ID_QA]
TransitionLists == {<<>>, <<TR_QA>>, <<TR_QA, TR_Done>>, <<TR_Done, TR_Done2>>}

\* What GET /field may answer: the names the catalog holds, each with its id
FieldIdOf(name) == IF name = "Oppgavekategori" THEN "customfield_10001"
                   ELSE "customfield_10002"
Catalogs == SUBSET {FieldNames[1], FieldNames[2]}

NoError == [type |-> "", at |-> ""]

Call(op, rec, k, arg) == [op |-> op, rec |-> rec, key |-> k, arg |-> arg]

\* an exception leaves migrate_tasks
Raise(type, at) ==
    /\ error' = [type |-> type, at |-> at]
    /\ pc' = "failed"

\* The functions of the other parts of the program are not running
ExtractIdle ==
    /\ mode = "" /\ x_pc = "" /\ cursor = None /\ results = <<>>
    /\ first_error = "" /\ data_sources = <<>> /\ ds_k = 0
    /\ all_results = <<>> /\ x_result = <<>> /\ x_error = ""
    /\ requests = <<>> /\ responses = <<>> /\ source = <<>>

PureIdle == f_pc = "" /\ f_in = <<>> /\ f_out = <<>>

MigrateIdle ==
    /\ tasks = <<>> /\ dry_run = FALSE /\ pc = "" /\ i = 0
    /\ mapped = NoMapped /\ field_ids = <<>> /\ anchor_key = 0 /\ key = 0
    /\ ci = 0 /\ transitions = <<>> /\ created_keys = <<>>
    /\ error = NoError /\ warnings = <<>> /\ calls = <<>> /\ issues = 0

Init ==
    /\ ExtractIdle /\ PureIdle
    /\ tasks \in SeqsUpTo(TaskSamples, MaxTasks)
    /\ dry_run \in BOOLEAN
    /\ issues \in 0..MaxExisting
    /\ pc = "priorities"
    /\ i = 1
    /\ mapped = NoMapped
    /\ field_ids = <<>>
    /\ anchor_key = 0
    /\ key = 0
    /\ ci = 1
    /\ transitions = <<>>
    /\ created_keys = <<>>
    /\ error = NoError
    /\ warnings = <<>>
    /\ calls = <<>>

-----------------------------------------------------------------------------
(* migrate_tasks, one action per HTTP call or branch *)

\* jira_priorities = get_priorities()
GetPriorities ==
    /\ pc = "priorities"
    /\ UNCHANGED <<xvars, fvars>>
    /\ calls' = Append(calls, Call("get_priorities", 0, 0, <<>>))
    /\ \E ok \in BOOLEAN :
           IF ok THEN pc' = "fields" /\ error' = error
           ELSE Raise("RuntimeError", "get_priorities")
    /\ UNCHANGED <<tasks, dry_run, i, mapped, field_ids, anchor_key, key, ci,
                   transitions, created_keys, warnings, issues>>

\* a resolution that leaves the identifier of a missing name empty and goes on
ResolveFieldIdsPartial ==
    /\ pc = "fields"
    /\ UNCHANGED <<xvars, fvars>>
    /\ calls' = Append(calls, Call("get_fields", 0, 0, <<>>))
    /\ \/ /\ Raise("RuntimeError", "get_fields")
          /\ field_ids' = field_ids
       \/ \E by_name \in Catalogs :
              /\ field_ids' = [n \in {FieldNames[1], FieldNames[2]} |->
                                  IF n \in by_name THEN FieldIdOf(n) ELSE ""]
              /\ pc' = "board"
              /\ error' = error
    /\ UNCHANGED <<tasks, dry_run, i, mapped, anchor_key, key, ci,
                   transitions, created_keys, warnings, issues>>

\* field_ids = resolve_field_ids(["Oppgavekategori", "Category of work"])
ResolveFieldIds ==
    /\ pc = "fields"
    /\ UNCHANGED <<xvars, fvars>>
    /\ calls' = Append(calls, Call("get_fields", 0, 0, <<>>))
    /\ \/ /\ Raise("RuntimeError", "get_fields")
          /\ field_ids' = field_ids
       \/ \E by_name \in Catalogs :
              IF \E n \in 1..Len(FieldNames) : FieldNames[n] \notin by_name
              THEN Raise("RuntimeError", "resolve_field_ids") /\ field_ids' = field_ids
              ELSE /\ field_ids' = [n \in by_name |-> FieldIdOf(n)]
                   /\ pc' = "board"
                   /\ error' = error
    /\ UNCHANGED <<tasks, dry_run, i, mapped, anchor_key, key, ci,
                   transitions, created_keys, warnings, issues>>

\* anchor_issues = get_board_issues(max_results=1); anchor_key = its first key
GetBoardIssues ==
    /\ pc = "board"
    /\ UNCHANGED <<xvars, fvars>>
    /\ calls' = Append(calls, Call("get_board_issues", 0, 0, <<>>))
    /\ \/ /\ Raise("RuntimeError", "get_board_issues")
          /\ anchor_key' = anchor_key
       \/ \E first \in 0..issues :
              /\ anchor_key' = first
              /\ pc' = "map"
              /\ error' = error
    /\ UNCHANGED <<tasks, dry_run, i, mapped, field_ids, key, ci,
                   transitions, created_keys, warnings, issues>>

\* the for loop is exhausted: return created_keys
Finish ==
    /\ pc = "map"
    /\ UNCHANGED <<xvars, fvars>>
    /\ i > Len(tasks)
    /\ pc' = "done"
    /\ UNCHANGED <<tasks, dry_run, i, mapped, field_ids, anchor_key, key, ci,
                   transitions, created_keys, error, warnings, calls, issues>>

\* a loop that skips the record whose map_task raises
MapTaskSkips ==
    /\ pc = "map"
    /\ UNCHANGED <<xvars, fvars>>
    /\ i <= Len(tasks)
    /\ map_task_raises(tasks[i])
    /\ i' = i + 1
    /\ UNCHANGED <<tasks, dry_run, pc, mapped, field_ids, anchor_key, key, ci,
                   transitions, created_keys, error, warnings, calls, issues>>

\* mapped = mapper.map_task(task, jira_priorities) raises ValueError
MapTaskRaises ==
    /\ pc = "map"
    /\ UNCHANGED <<xvars, fvars>>
    /\ i <= Len(tasks)
    /\ map_task_raises(tasks[i])
    /\ Raise("ValueError", "map_task")
    /\ UNCHANGED <<tasks, dry_run, i, mapped, field_ids, anchor_key, key, ci,
                   transitions, created_keys, warnings, calls, issues>>

\* a loop body without the `if dry_run: continue`
MapTaskIgnoresDryRun ==
    /\ pc = "map"
    /\ UNCHANGED <<xvars, fvars>>
    /\ i <= Len(tasks)
    /\ ~map_task_raises(tasks[i])
    /\ mapped' = map_task(tasks[i])
    /\ pc' = "create"
    /\ UNCHANGED <<tasks, dry_run, i, field_ids, anchor_key, key, ci,
                   transitions, created_keys, error, warnings, calls, issues>>

\* mapped = mapper.map_task(task, jira_priorities); if dry_run: continue
MapTask ==
    /\ pc = "map"
    /\ UNCHANGED <<xvars, fvars>>
    /\ i <= Len(tasks)
    /\ ~map_task_raises(tasks[i])
    /\ mapped' = map_task(tasks[i])
    /\ IF dry_run
       THEN i' = i + 1 /\ pc' = pc
       ELSE pc' = "create" /\ i' = i
    /\ UNCHANGED <<tasks, dry_run, field_ids, anchor_key, key, ci,
                   transitions, created_keys, error, warnings, calls, issues>>

\* issue = create_issue(payload); key = issue["key"]; created_keys.append(key)
CreateIssue ==
    /\ pc = "create"
    /\ UNCHANGED <<xvars, fvars>>
    /\ calls' = Append(calls, Call("create_issue", i, 0, build_create_payload(mapped)))
    /\ \E ok \in BOOLEAN :
           IF ok
           THEN /\ issues' = issues + 1
                /\ key' = issues + 1
                /\ created_keys' = Append(created_keys, issues + 1)
                /\ pc' = "set_fields"
                /\ error' = error
           ELSE /\ Raise("RuntimeError", "create_issue")
                /\ UNCHANGED <<issues, key, created_keys>>
    /\ UNCHANGED <<tasks, dry_run, i, mapped, field_ids, anchor_key, ci,
                   transitions, warnings>>

\* set_issue_fields without the try/except that surrounds it
SetIssueFieldsUncaught ==
    /\ pc = "set_fields"
    /\ UNCHANGED <<xvars, fvars>>
    /\ calls' = Append(calls, Call("set_issue_fields", i, key,
                                   build_update_fields(field_ids)))
    /\ \E ok \in BOOLEAN :
           IF ok THEN pc' = "move" /\ error' = error
           ELSE Raise("RuntimeError", "set_issue_fields")
    /\ UNCHANGED <<tasks, dry_run, i, mapped, field_ids, anchor_key, key, ci,
                   transitions, created_keys, warnings, issues>>

\* try: set_issue_fields(key, build_update_fields(...)) except Exception: WARN
SetIssueFields ==
    /\ pc = "set_fields"
    /\ UNCHANGED <<xvars, fvars>>
    /\ calls' = Append(calls, Call("set_issue_fields", i, key,
                                   build_update_fields(field_ids)))
    /\ \E ok \in BOOLEAN :
           warnings' = IF ok THEN warnings
                       ELSE Append(warnings, <<i, "custom_fields">>)
    /\ pc' = "move"
    /\ UNCHANGED <<tasks, dry_run, i, mapped, field_ids, anchor_key, key, ci,
                   transitions, created_keys, error, issues>>

\* a placement that reads the first issue of the board anew for each record
MoveIssueToBoardFreshAnchor ==
    /\ pc = "move"
    /\ UNCHANGED <<xvars, fvars>>
    /\ \E first \in 0..issues :
           calls' = Append(calls, Call("move_issue_to_board", i, key, first))
    /\ \E status_code \in {204, 207, 400} :
           IF status_code \in {204, 207}
           THEN pc' = "status" /\ error' = error
           ELSE Raise("RuntimeError", "move_issue_to_board")
    /\ UNCHANGED <<tasks, dry_run, i, mapped, field_ids, anchor_key, key, ci,
                   transitions, created_keys, warnings, issues>>

\* move_issue_to_board(key, rank_before=anchor_key)
MoveIssueToBoard ==
    /\ pc = "move"
    /\ UNCHANGED <<xvars, fvars>>
    /\ calls' = Append(calls, Call("move_issue_to_board", i, key, anchor_key))
    /\ \E status_code \in {204, 207, 400} :
           IF status_code \in {204, 207}
           THEN pc' = "status" /\ error' = error
           ELSE Raise("RuntimeError", "move_issue_to_board")
    /\ UNCHANGED <<tasks, dry_run, i, mapped, field_ids, anchor_key, key, ci,
                   transitions, created_keys, warnings, issues>>

\* the `if` of step 3 is false: no transition
SkipTransition ==
    /\ pc = "status"
    /\ UNCHANGED <<xvars, fvars>>
    /\ ~NeedsTransition(mapped)
    /\ pc' = "comments"
    /\ UNCHANGED <<tasks, dry_run, i, mapped, field_ids, anchor_key, key, ci,
                   transitions, created_keys, error, warnings, calls, issues>>

\* transition_to_status_id: transitions = get_transitions(issue_key); match = ...
GetTransitions ==
    /\ pc = "status"
    /\ UNCHANGED <<xvars, fvars>>
    /\ NeedsTransition(mapped)
    /\ calls' = Append(calls, Call("get_transitions", i, key, <<>>))
    /\ \/ \* get_transitions raises; caught in migrate_tasks
          /\ warnings' = Append(warnings, <<i, "transition">>)
          /\ pc' = "comments"
          /\ transitions' = transitions
       \/ \E trs \in TransitionLists :
              IF MatchIndex(trs, mapped.target_status_id) = 0
              THEN \* "No transition from ..." raised; caught in migrate_tasks
                   /\ warnings' = Append(warnings, <<i, "transition">>)
                   /\ pc' = "comments"
                   /\ transitions' = transitions
              ELSE /\ transitions' = trs
                   /\ pc' = "transition"
                   /\ warnings' = warnings
    /\ UNCHANGED <<tasks, dry_run, i, mapped, field_ids, anchor_key, key, ci,
                   created_keys, error, issues>>

\* transition_to_status_id: POST the matched transition
FireTransition ==
    /\ pc = "transition"
    /\ UNCHANGED <<xvars, fvars>>
    /\ calls' = Append(calls, Call("transition", i, key,
                           transitions[MatchIndex(transitions, mapped.target_status_id)]))
    /\ \E ok \in BOOLEAN :
           warnings' = IF ok THEN warnings
                       ELSE Append(warnings, <<i, "transition">>)
    /\ transitions' = <<>>
    /\ pc' = "comments"
    /\ UNCHANGED <<tasks, dry_run, i, mapped, field_ids, anchor_key, key, ci,
                   created_keys, error, issues>>

\* the comments taken last first
NextCommentReversed(m, k) == m.comments[Len(m.comments) + 1 - k]

\* the comment the loop of step 4 sends in its k-th iteration
NextComment(m, k) == m.comments[k]

\* for c in mapped.comments: add_comment(key, c)
AddComment ==
    /\ pc = "comments"
    /\ UNCHANGED <<xvars, fvars>>
    /\ ci <= Len(mapped.comments)
    /\ calls' = Append(calls, Call("add_comment", i, key,
                                   [meta |-> FALSE, text |-> NextComment(mapped, ci)]))
    /\ \E ok \in BOOLEAN :
           IF ok THEN ci' = ci + 1 /\ UNCHANGED <<pc, error>>
           ELSE Raise("RuntimeError", "add_comment") /\ ci' = ci
    /\ UNCHANGED <<tasks, dry_run, i, mapped, field_ids, anchor_key, key,
                   transitions, created_keys, warnings, issues>>

\* the loop body ends: the next record
NextRecord ==
    /\ i' = i + 1
    /\ pc' = "map"
    /\ key' = 0
    /\ ci' = 1
    /\ mapped' = NoMapped

\* step 5 with meta_lines: add_comment(key, "Migration metadata:..." )
AddMetaComment ==
    /\ pc = "comments"
    /\ UNCHANGED <<xvars, fvars>>
    /\ ci > Len(mapped.comments)
    /\ meta_lines(tasks[i]) # <<>>
    /\ calls' = Append(calls, Call("add_comment", i, key,
                                   [meta |-> TRUE, text |-> meta_lines(tasks[i])]))
    /\ \E ok \in BOOLEAN :
           IF ok THEN NextRecord /\ error' = error
           ELSE Raise("RuntimeError", "add_meta_comment")
                /\ UNCHANGED <<i, key, ci, mapped>>
    /\ UNCHANGED <<tasks, dry_run, field_ids, anchor_key,
                   transitions, created_keys, warnings, issues>>

\* step 5 without meta_lines
SkipMetaComment ==
    /\ pc = "comments"
    /\ UNCHANGED <<xvars, fvars>>
    /\ ci > Len(mapped.comments)
    /\ meta_lines(tasks[i]) = <<>>
    /\ NextRecord
    /\ UNCHANGED <<tasks, dry_run, field_ids, anchor_key, transitions,
                   created_keys, error, warnings, calls, issues>>

Next ==
    \/ GetPriorities
    \/ ResolveFieldIds
    \/ GetBoardIssues
    \/ Finish
    \/ MapTaskRaises
    \/ MapTask
    \/ CreateIssue
    \/ SetIssueFields
    \/ MoveIssueToBoard
    \/ SkipTransition
    \/ GetTransitions
    \/ FireTransition
    \/ AddComment
    \/ AddMetaComment
    \/ SkipMetaComment

Spec == Init /\ [][Next]_vars

-----------------------------------------------------------------------------
(* Reading the log of calls *)

WriteOps == {"create_issue", "set_issue_fields", "move_issue_to_board",
             "transition", "add_comment"}

IsWrite(c) == c.op \in WriteOps

Kind(c) == IF c.op = "add_comment"
           THEN (IF c.arg.meta THEN "meta_comment" ELSE "comment")
           ELSE c.op

Writes == SelectSeq(calls, IsWrite)

WritesOf(r) == LET Of(c) == IsWrite(c) /\ c.rec = r IN SelectSeq(calls, Of)

NotTransition(c) == c.op # "transition"

\* The writes of record r in the order of the loop body, the optional
\* transition left out
ExpectedKinds(r) ==
    <<"create_issue", "set_issue_fields", "move_issue_to_board">>
    \o [k \in 1..Len(map_comments(GetStr(tasks[r], "Comments"))) |-> "comment"]
    \o (IF meta_lines(tasks[r]) # <<>> THEN <<"meta_comment">> ELSE <<>>)

\* C1: records are migrated in the order of the input list, no write of a
\* record follows a write of a later record, and the writes of one record are
\* create issue, set custom fields, place on board, status transition, the
\* parsed comments in line order, the metadata comment, in that order.
C1_WriteOrder ==
    /\ LET Ws == Writes
       IN /\ \A n \in 1..(Len(Ws) - 1) : Ws[n].rec <= Ws[n + 1].rec
          /\ \A n \in 1..Len(Ws) : Ws[n].rec \in 1..Len(tasks)
    /\ \A r \in 1..Len(tasks) :
         LET W == WritesOf(r)
             NT == SelectSeq(W, NotTransition)
             E == ExpectedKinds(r)
             lines == map_comments(GetStr(tasks[r], "Comments"))
         IN W # <<>> =>
            /\ Len(NT) <= Len(E)
            /\ \A k \in 1..Len(NT) : Kind(NT[k]) = E[k]
            /\ \A k \in 1..Len(W) : W[k].op = "transition" => k = 4
            /\ \A k \in 1..Len(lines) :
                   3 + k <= Len(NT) => NT[3 + k].arg.text = lines[k]
            /\ Len(NT) >= 1 => NT[1].arg.summary = Strip(GetStr(tasks[r], "Title"))

C1_Witness ==
    /\ pc = "done"
    /\ Len(tasks) = 2
    /\ Len(WritesOf(1)) = 7
    /\ \E n \in 1..Len(calls) : calls[n].rec = 1 /\ calls[n].op = "transition"
    /\ Len(WritesOf(2)) >= 4

\* a step in which the current record fails at the record level: map_task
\* raises for the missing title, or create_issue raises
RecordFails ==
    \/ pc = "map" /\ i <= Len(tasks) /\ map_task_raises(tasks[i])
    \/ pc = "create" /\ created_keys' = created_keys

\* C2 as stated: a record-level fatal failure aborts only that record; no
\* issue-specific write is made for it and the loop goes on to the next record.
C2_AbortsOnlyRecord ==
    [][RecordFails =>
          /\ pc' = "map" /\ i' = i + 1
          /\ error' = NoError
          /\ created_keys' = created_keys]_vars

\* C2 amended: a record-level fatal failure ends the whole run with the
\* exception: no key is added and no call but the failed create attempt is
\* made for the record, and a run that failed takes no further step, so no
\* later record is processed.
C2_AbortsRun ==
    [][/\ pc # "failed"
       /\ RecordFails =>
            /\ pc' = "failed"
            /\ error'.at \in {"map_task", "create_issue"}
            /\ i' = i
            /\ created_keys' = created_keys
            /\ \/ calls' = calls
               \/ /\ error'.at = "create_issue"
                  /\ calls' = Append(calls, Call("create_issue", i, 0,
                                                 build_create_payload(mapped)))]_vars

C2_Witness ==
    /\ pc = "failed"
    /\ error.at \in {"map_task", "create_issue"}
    /\ i < Len(tasks)
    /\ \A n \in 1..Len(calls) : calls[n].rec <= i

\* C3: a failed board placement is not fatal: the record goes on with the
\* status transition and the run does not end there.
C3_MoveFailureNotFatal ==
    [][pc = "move" => pc' = "status" /\ error' = NoError]_vars

\* C4: a failed comment call, of a parsed comment or of the metadata comment,
\* never ends the run.
C4_CommentFailureNotFatal ==
    ~(pc = "failed" /\ error.at \in {"add_comment", "add_meta_comment"})

\* C5: a failure of set_issue_fields, of get_transitions, of the lookup of
\* the transition or of the transition call is caught: the step leads to the
\* next step of the same record, the key stays in created_keys, and no
\* exception leaves migrate_tasks.
C5_OptionalStepsCaught ==
    [][/\ pc = "set_fields" => pc' = "move"
       /\ pc = "status" => pc' \in {"transition", "comments"}
       /\ pc = "transition" => pc' = "comments"
       /\ pc \in {"set_fields", "status", "transition"} =>
            /\ error' = NoError
            /\ InSeq(key, created_keys')
            /\ key' = key /\ i' = i
            /\ Len(warnings') \in {Len(warnings), Len(warnings) + 1}]_vars

C5_Witness ==
    /\ pc = "done"
    /\ Len(tasks) = 2
    /\ Len(created_keys) = 2
    /\ InSeq(<<1, "custom_fields">>, warnings)
    /\ InSeq(<<1, "transition">>, warnings)
    /\ \E n \in 1..Len(calls) : calls[n].rec = 1 /\ calls[n].op = "add_comment"
    /\ \E n \in 1..Len(calls) : calls[n].rec = 2 /\ calls[n].op = "move_issue_to_board"

-----------------------------------------------------------------------------
(* The source API as the paginators see it (src/extract_from_notion.py).   *)
(* A reply is the JSON body of a 2xx answer, or a non-2xx answer, for      *)
(* which notion_request raises RuntimeError.                               *)

JTrue == "JSON true"
JFalse == "JSON false"

\* Python truthiness of a cursor or of has_more
Truthy(v) == v \notin {None, "", JFalse}

Reply(res, more, next) ==
    [ok |-> TRUE, results |-> res, has_more |-> more, next_cursor |-> next,
     data_sources |-> <<>>]

HttpFailure ==
    [ok |-> FALSE, results |-> <<>>, has_more |-> None, next_cursor |-> None,
     data_sources |-> <<>>]

PageReplies ==
    { Reply(<<"a">>, JFalse, None),          \* a last page
      Reply(<<"b", "c">>, None, "c1"),       \* has_more absent, a cursor given
      Reply(<<>>, JFalse, ""),               \* an empty last page
      Reply(<<"a">>, JTrue, "c1"),           \* more pages
      Reply(<<"b", "c">>, JTrue, "c2"),      \* more pages
      Reply(<<"a">>, JTrue, None),           \* has_more without a cursor
      Reply(<<"b", "c">>, JTrue, ""),        \* has_more with an empty cursor
      HttpFailure }

\* db.get("data_sources"): the id of each entry, None for an entry without id
DataSourceLists == {<<>>, <<"ds1">>, <<None, "ds2">>, <<"ds1", "ds2">>}

DatabaseReplies ==
    {[ok |-> TRUE, results |-> <<>>, has_more |-> None, next_cursor |-> None,
      data_sources |-> d] : d \in DataSourceLists} \cup {HttpFailure}

Request(op, target, c) == [op |-> op, target |-> target, cursor |-> c]

\* `if start_cursor:` / `if cursor:` : the cursor the request carries
RequestCursor(c) == IF Truthy(c) THEN c ELSE None

\* bool(data.get("has_more"))
HasMore(r) == Truthy(r.has_more)

\* paginate_query: start_cursor = data.get("next_cursor"), before has_more is read
QueryCursorAfter(c, r) == r.next_cursor

\* paginate_list_endpoint keeps the cursor it sent
ListCursorStale(c, r) == c

\* paginate_list_endpoint: cursor = data.get("next_cursor"), after the break
ListCursorAfter(c, r) == IF HasMore(r) THEN r.next_cursor ELSE c

\* a loop that returns after its first page
PageOutcomeFirstPageOnly(r) == IF ~r.ok THEN "http_error" ELSE "return"

\* how one iteration of either loop ends
PageOutcome(r) ==
    IF ~r.ok THEN "http_error"
    ELSE IF ~HasMore(r) THEN "return"
    ELSE IF ~Truthy(r.next_cursor) THEN "protocol_violation"
    ELSE "continue"

\* results.extend(data.get("results", []))
Extend(res, r) == IF r.ok THEN res \o r.results ELSE res

\* a request is sent and answered by r
Send(req, r) ==
    /\ Len(requests) < MaxRequests
    /\ requests' = Append(requests, req)
    /\ responses' = Append(responses, r)

\* one iteration of the loop of a paginator called on its own
PaginatorPageAnswered(op, r) ==
    /\ Send(Request(op, "", RequestCursor(cursor)), r)
    /\ results' = Extend(results, r)
    /\ cursor' = CASE ~r.ok -> cursor
                 [] op = "list" -> ListCursorAfter(cursor, r)
                 [] OTHER -> QueryCursorAfter(cursor, r)
    /\ x_pc' = CASE PageOutcome(r) = "continue" -> x_pc
                 [] PageOutcome(r) = "return" -> "done"
                 [] OTHER -> "failed"
    /\ x_error' = IF PageOutcome(r) \in {"http_error", "protocol_violation"}
                  THEN PageOutcome(r) ELSE x_error
    /\ x_result' = IF PageOutcome(r) = "return" THEN Extend(results, r) ELSE x_result

\* one iteration, whatever the source answers
PaginatorPage(op) == \E r \in PageReplies : PaginatorPageAnswered(op, r)

\* paginate_query, lines 37-61
PaginateQueryPage ==
    /\ mode = "paginate_query"
    /\ x_pc = "paging"
    /\ PaginatorPage("query")
    /\ UNCHANGED <<mode, first_error, data_sources, ds_k, all_results>>
    /\ UNCHANGED <<mvars, fvars, source>>

\* paginate_list_endpoint, lines 173-188
PaginateListPage ==
    /\ mode = "paginate_list_endpoint"
    /\ x_pc = "paging"
    /\ PaginatorPage("list")
    /\ UNCHANGED <<mode, first_error, data_sources, ds_k, all_results>>
    /\ UNCHANGED <<mvars, fvars, source>>

\* extract_all_tasks, lines 72-77: paginate_query on the database, inside the try
DbQueryPage ==
    /\ mode = "extract_all_tasks"
    /\ x_pc = "db_query"
    /\ \E r \in PageReplies :
        /\ Send(Request("db_query", "db", RequestCursor(cursor)), r)
        /\ results' = Extend(results, r)
        /\ cursor' = IF r.ok THEN QueryCursorAfter(cursor, r) ELSE cursor
        /\ CASE PageOutcome(r) = "continue" ->
                  UNCHANGED <<x_pc, first_error, x_result>>
             [] PageOutcome(r) = "return" ->
                  /\ x_pc' = "done"
                  /\ x_result' = [tasks |-> Extend(results, r), mode |-> "database_query"]
                  /\ first_error' = first_error
             [] OTHER ->  \* except RuntimeError as e: first_error = str(e)
                  /\ first_error' = PageOutcome(r)
                  /\ x_pc' = "get_database"
                  /\ x_result' = x_result
    /\ UNCHANGED <<mode, data_sources, ds_k, all_results, x_error>>
    /\ UNCHANGED <<mvars, fvars, source>>

\* the index of the first data source with an id after position k, 0 for none
NextSource(ds, k) ==
    IF \E n \in (k + 1)..Len(ds) : Truthy(ds[n])
    THEN CHOOSE n \in (k + 1)..Len(ds) :
             Truthy(ds[n]) /\ \A m \in (k + 1)..(n - 1) : ~Truthy(ds[m])
    ELSE 0

\* extract_all_tasks, lines 79-87: the fallback reads the database object
GetDatabase ==
    /\ mode = "extract_all_tasks"
    /\ x_pc = "get_database"
    /\ \E r \in DatabaseReplies :
        /\ Send(Request("get_database", "db", None), r)
        /\ IF ~r.ok \/ r.data_sources = <<>>
           THEN /\ x_pc' = "failed"
                /\ x_error' = IF r.ok THEN "no_data_sources" ELSE "http_error"
                /\ UNCHANGED <<data_sources, ds_k, x_result>>
           ELSE /\ data_sources' = r.data_sources
                /\ ds_k' = NextSource(r.data_sources, 0)
                /\ IF NextSource(r.data_sources, 0) = 0
                   THEN /\ x_pc' = "done"
                        /\ x_result' = [tasks |-> <<>>, mode |-> "data_source_query"]
                   ELSE /\ x_pc' = "ds_query"
                        /\ x_result' = x_result
                /\ x_error' = x_error
    /\ cursor' = None
    /\ results' = <<>>
    /\ all_results' = <<>>
    /\ UNCHANGED <<mode, first_error>>
    /\ UNCHANGED <<mvars, fvars, source>>

\* extract_all_tasks, lines 88-100: paginate_query on one data source
DsQueryPage ==
    /\ mode = "extract_all_tasks"
    /\ x_pc = "ds_query"
    /\ \E r \in PageReplies :
        /\ Send(Request("ds_query", data_sources[ds_k], RequestCursor(cursor)), r)
        /\ CASE PageOutcome(r) = "continue" ->
                  /\ results' = Extend(results, r)
                  /\ cursor' = QueryCursorAfter(cursor, r)
                  /\ UNCHANGED <<x_pc, x_error, x_result, ds_k, all_results>>
             [] PageOutcome(r) = "return" ->
                  /\ all_results' = all_results \o Extend(results, r)
                  /\ ds_k' = NextSource(data_sources, ds_k)
                  /\ results' = <<>>
                  /\ cursor' = None
                  /\ x_error' = x_error
                  /\ IF NextSource(data_sources, ds_k) = 0
                     THEN /\ x_pc' = "done"
                          /\ x_result' = [tasks |-> all_results \o Extend(results, r),
                                          mode |-> "data_source_query"]
                     ELSE UNCHANGED <<x_pc, x_result>>
             [] OTHER ->  \* the RuntimeError leaves extract_all_tasks
                  /\ x_pc' = "failed"
                  /\ x_error' = PageOutcome(r)
                  /\ results' = Extend(results, r)
                  /\ cursor' = IF r.ok THEN QueryCursorAfter(cursor, r) ELSE cursor
                  /\ UNCHANGED <<x_result, ds_k, all_results>>
    /\ UNCHANGED <<mode, first_error, data_sources>>
    /\ UNCHANGED <<mvars, fvars, source>>

InitExtract ==
    /\ MigrateIdle /\ PureIdle
    /\ mode \in {"paginate_query", "paginate_list_endpoint", "extract_all_tasks"}
    /\ x_pc = IF mode = "extract_all_tasks" THEN "db_query" ELSE "paging"
    /\ cursor = None
    /\ results = <<>>
    /\ first_error = ""
    /\ data_sources = <<>>
    /\ ds_k = 0
    /\ all_results = <<>>
    /\ x_result = <<>>
    /\ x_error = ""
    /\ requests = <<>>
    /\ responses = <<>>
    /\ source = <<>>

NextExtract ==
    \/ PaginateQueryPage
    \/ PaginateListPage
    \/ DbQueryPage
    \/ GetDatabase
    \/ DsQueryPage

SpecExtract == InitExtract /\ [][NextExtract]_vars

-----------------------------------------------------------------------------
(* Claims on the paginators and on extract_all_tasks *)

\* a page that says has_more and gives no cursor
IsViolation(r) == r.ok /\ HasMore(r) /\ ~Truthy(r.next_cursor)

\* the results of the first n answers, in page order
RECURSIVE ConcatResults(_, _)
ConcatResults(rs, n) ==
    IF n = 0 THEN <<>> ELSE ConcatResults(rs, n - 1) \o rs[n].results

\* C6: in extract_all_tasks a page with has_more and no cursor is fatal and
\* is not retried: no request of any kind follows it and the extraction does
\* not return a result.
C6_ViolationFatal ==
    mode = "extract_all_tasks" =>
        \A n \in 1..Len(responses) :
            IsViolation(responses[n]) => n = Len(requests) /\ x_pc # "done"

\* C7: for paginate_query and paginate_list_endpoint the first request has
\* no cursor and each later one carries the next_cursor of the answer before
\* it; a page without has_more ends the call, which returns the results of
\* all pages in page order; a page with has_more and no cursor fails the call
\* and no further page is requested.
C7_Pagination ==
    mode \in {"paginate_query", "paginate_list_endpoint"} =>
        /\ Len(responses) = Len(requests)
        /\ \A n \in 1..Len(requests) :
               requests[n].cursor = IF n = 1 THEN None ELSE responses[n - 1].next_cursor
        /\ \A n \in 1..Len(responses) :
               /\ (responses[n].ok /\ ~HasMore(responses[n])) =>
                      /\ n = Len(requests)
                      /\ x_pc = "done"
                      /\ x_result = ConcatResults(responses, n)
               /\ IsViolation(responses[n]) =>
                      /\ n = Len(requests)
                      /\ x_pc = "failed"
        /\ x_pc = "done" =>
               /\ Len(responses) >= 1
               /\ responses[Len(responses)].ok
               /\ ~HasMore(responses[Len(responses)])

C7_Witness ==
    /\ mode = "paginate_list_endpoint"
    /\ x_pc = "done"
    /\ Len(requests) = 3
    /\ requests[3].cursor = "c2"
    /\ x_result = <<"a", "b", "c", "a">>

-----------------------------------------------------------------------------
(* filter_tasks and _parse_iso_date_start (src/upload_to_jira.py)          *)

\* a date is <<year, month, day>>; None of Optional[date]
NoDate == <<>>

IsDigit(c) == c \in Digits

DigitVal(c) == CHOOSE n \in 0..9 : <<"0","1","2","3","4","5","6","7","8","9">>[n + 1] = c

\* int() of a string of digits
RECURSIVE IntOf(_)
IntOf(s) == IF s = <<>> THEN 0
            ELSE 10 * IntOf(SubSeq(s, 1, Len(s) - 1)) + DigitVal(s[Len(s)])

IsLeap(y) == (y % 4 = 0 /\ y % 100 # 0) \/ y % 400 = 0

DaysIn(y, m) == IF m = 2 THEN (IF IsLeap(y) THEN 29 ELSE 28)
                ELSE IF m \in {4, 6, 9, 11} THEN 30 ELSE 31

\* date.fromisoformat on an extended-format date: the date, or NoDate where
\* it raises ValueError
fromisoformat(s) ==
    IF /\ Len(s) = 10
       /\ \A n \in {1, 2, 3, 4, 6, 7, 9, 10} : IsDigit(s[n])
       /\ s[5] = "-" /\ s[8] = "-"
    THEN LET y == IntOf(SubSeq(s, 1, 4))
             m == IntOf(SubSeq(s, 6, 7))
             d == IntOf(SubSeq(s, 9, 10))
         IN IF y >= 1 /\ m \in 1..12 /\ d >= 1 /\ d <= DaysIn(y, m)
            THEN <<y, m, d>> ELSE NoDate
    ELSE NoDate

CUTOFF == fromisoformat(<<"2","0","2","6","-","0","1","-","0","1">>)

\* `".." in s`
HasDotDot(s) == \E n \in 1..(Len(s) - 1) : s[n] = "." /\ s[n + 1] = "."

\* s.split("..", 1)[0]
BeforeDotDot(s) ==
    LET p == CHOOSE n \in 1..(Len(s) - 1) :
                 /\ s[n] = "." /\ s[n + 1] = "."
                 /\ \A m \in 1..(n - 1) : ~(s[m] = "." /\ s[m + 1] = ".")
    IN SubSeq(s, 1, p - 1)

_parse_iso_date_start(value) ==
    IF value = <<>> THEN NoDate
    ELSE IF Strip(value) = <<>> THEN NoDate
    ELSE LET s1 == Strip(value)
             s2 == IF HasDotDot(s1) THEN Strip(BeforeDotDot(s1)) ELSE s1
         IN fromisoformat(Prefix(s2, 10))

\* a >= b on dates
DateNotBefore(a, b) ==
    \/ a[1] > b[1]
    \/ a[1] = b[1] /\ a[2] > b[2]
    \/ a[1] = b[1] /\ a[2] = b[2] /\ a[3] >= b[3]

\* a > b on dates
DateAfter(a, b) ==
    \/ a[1] > b[1]
    \/ a[1] = b[1] /\ a[2] > b[2]
    \/ a[1] = b[1] /\ a[2] = b[2] /\ a[3] > b[3]

\* the test of the loop body of filter_tasks: whether t is appended to out
keeps(t) ==
    IF Lower(Strip(GetStr(t, "Status"))) # K_archived THEN TRUE
    ELSE LET ark == _parse_iso_date_start(GetStr(t, "Arkiveringsdato"))
         IN ark # NoDate /\ DateAfter(ark, CUTOFF)

RECURSIVE filter_tasks(_)
filter_tasks(ts) ==
    IF ts = <<>> THEN <<>>
    ELSE (IF keeps(Head(ts)) THEN <<Head(ts)>> ELSE <<>>) \o filter_tasks(Tail(ts))

\* The values of Arkiveringsdato tried
D_after == <<"2","0","2","6","-","0","2","-","0","1">>
D_before == <<"2","0","2","5","-","1","2","-","3","1">>
D_cutoff == <<"2","0","2","6","-","0","1","-","0","1">>
D_next_day == <<" ","2","0","2","6","-","0","1","-","0","2"," ">>
D_timestamp == <<"2","0","2","6","-","0","3","-","0","5","T","1","0",":","0","0",":","0","0">>
D_range == <<"2","0","2","6","-","0","2","-","0","1",".",".","2","0","2","6","-","0","3","-","0","1">>
D_range_old == <<"2","0","2","5","-","0","6","-","0","1",".",".","2","0","2","6","-","0","6","-","0","1">>
D_bad_month == <<"2","0","2","6","-","1","3","-","0","1">>
D_bad_day == <<"2","0","2","6","-","0","2","-","3","0">>
D_leap == <<"2","0","2","8","-","0","2","-","2","9">>
D_text == <<"s","o","o","n">>
D_short == <<"2","0","2","6","-","2","-","1">>
D_blank == <<" "," ">>

\* The values of Status tried
S_Archived == <<"A","r","c","h","i","v","e","d">>
S_archived_padded == <<" ","a","R","C","H","I","V","E","D","\t">>
S_Archive == <<"A","r","c","h","i","v","e">>

\* The date each value of Arkiveringsdato stands for: the bare date, the
\* first component of a range or the date part of a timestamp, NoDate for
\* what is no date
DateRead ==
    (D_after :> <<2026, 2, 1>>) @@
    (D_before :> <<2025, 12, 31>>) @@
    (D_cutoff :> <<2026, 1, 1>>) @@
    (D_next_day :> <<2026, 1, 2>>) @@
    (D_timestamp :> <<2026, 3, 5>>) @@
    (D_range :> <<2026, 2, 1>>) @@
    (D_range_old :> <<2025, 6, 1>>) @@
    (D_bad_month :> NoDate) @@
    (D_bad_day :> NoDate) @@
    (D_leap :> <<2028, 2, 29>>) @@
    (D_text :> NoDate) @@
    (D_short :> NoDate) @@
    (D_blank :> NoDate)

\* The values of Status that name the archival state
ArchivalStatus == {S_Archived, S_archived_padded, S_ARCHIVED}

MaxFilterLen == 2

FilterSamples ==
    {[Status |-> st, Arkiveringsdato |-> d] :
        st \in {S_Archived, S_archived_padded}, d \in DOMAIN DateRead}
    \cup {[Status |-> S_Archived], [Status |-> S_ARCHIVED, Arkiveringsdato |-> <<>>]}
    \cup {[Status |-> st, Arkiveringsdato |-> d] :
        st \in {S_Done, S_Archive, <<>>}, d \in {D_after, D_before}}
    \cup {[Title |-> S_T], [Status |-> S_Backlog]}

InitFilter ==
    /\ MigrateIdle /\ ExtractIdle
    /\ f_pc = "input"
    /\ f_in \in SeqsUpTo(FilterSamples, MaxFilterLen)
    /\ f_out = <<>>

\* tasks = filter_tasks(tasks)
ApplyFilter ==
    /\ f_pc = "input"
    /\ f_out' = filter_tasks(f_in)
    /\ f_pc' = "done"
    /\ UNCHANGED <<f_in, mvars, xvars>>

NextFilter == ApplyFilter

SpecFilter == InitFilter /\ [][NextFilter]_vars

\* whether the claim keeps record t
KeepExpected(t) ==
    IF GetStr(t, "Status") \notin ArchivalStatus THEN TRUE
    ELSE /\ GetStr(t, "Arkiveringsdato") \in DOMAIN DateRead
         /\ DateRead[GetStr(t, "Arkiveringsdato")] # NoDate
         /\ LET d == DateRead[GetStr(t, "Arkiveringsdato")]
            IN d[1] > 2026 \/ (d[1] = 2026 /\ (d[2] > 1 \/ d[3] > 1))

\* C8: filter_tasks returns the sub-list of its input, in input order, of
\* the records that are not archived (status trimmed, compared without case)
\* or whose Arkiveringsdato reads as a date strictly after 2026-01-01.
C8_Filter ==
    f_pc = "done" => f_out = SelectSeq(f_in, KeepExpected)

C8_Witness ==
    /\ f_pc = "done"
    /\ Len(f_in) = 2
    /\ f_in[1] = [Status |-> S_archived_padded, Arkiveringsdato |-> D_cutoff]
    /\ f_in[2] = [Status |-> S_Archived, Arkiveringsdato |-> D_range]
    /\ f_out = <<f_in[2]>>

-----------------------------------------------------------------------------
(* The labels of a mapped task (TaskMapper.map_task, lines 318-323)        *)

\* The values of Tags, Labels and "Kodebase / type" tried
L_bugfix_api == <<"B","u","g"," ","F","i","x","!",","," ","A","P","I"," ">>
L_api_twice == <<"a","p","i",",","A","P","I"," ",","," ","A","p","i">>
L_symbols == <<"!","!","!",","," ","x","_","1">>
L_spaces == <<" ","F","r","o","n","t"," ","\t"," ","E","n","d",",","w","e","b","-","-","u","i"," ">>
L_commas == <<" ",","," ",",">>
L_backend == <<"B","a","c","k","e","n","d",","," ","b","u","g"," ","f","i","x">>
L_web == <<"w","e","b">>

\* one entry longer than a label may be
L_long == [n \in 1..(LABEL_MAX_LEN + 1) |-> "a"]

\* The labels each value stands for: each comma-separated entry trimmed,
\* lower-cased, its whitespace runs replaced by a hyphen, the characters
\* outside [a-z0-9-_] removed, cut to 255 characters
LabelsRead ==
    (L_bugfix_api :> <<<<"b","u","g","-","f","i","x">>, <<"a","p","i">>>>) @@
    (L_api_twice :> <<<<"a","p","i">>, <<"a","p","i">>, <<"a","p","i">>>>) @@
    (L_symbols :> <<<<>>, <<"x","_","1">>>>) @@
    (L_spaces :> <<<<"f","r","o","n","t","-","e","n","d">>, <<"w","e","b","-","-","u","i">>>>) @@
    (L_commas :> <<>>) @@
    (L_backend :> <<<<"b","a","c","k","e","n","d">>, <<"b","u","g","-","f","i","x">>>>) @@
    (L_web :> <<<<"w","e","b">>>>) @@
    (L_long :> <<[n \in 1..LABEL_MAX_LEN |-> "a"]>>) @@
    (<<>> :> <<>>)

LabelTasks ==
    {[Title |-> S_T, Tags |-> tg, Labels |-> lb, Kodebase |-> kb]
        : tg \in DOMAIN LabelsRead,
          lb \in {<<>>, L_web, L_backend, L_symbols},
          kb \in {<<>>, L_bugfix_api, L_api_twice, L_long}}

\* the dict of a sample: a key with an empty value is left out
TaskOf(x) ==
    [k \in {"Title"} \cup (IF x.Tags # <<>> THEN {"Tags"} ELSE {})
                     \cup (IF x.Labels # <<>> THEN {"Labels"} ELSE {})
                     \cup (IF x.Kodebase # <<>> THEN {"Kodebase / type"} ELSE {})
       |-> CASE k = "Title" -> x.Title
             [] k = "Tags" -> x.Tags
             [] k = "Labels" -> x.Labels
             [] OTHER -> x.Kodebase]

InitLabels ==
    /\ MigrateIdle /\ ExtractIdle
    /\ f_pc = "input"
    /\ f_in \in {TaskOf(x) : x \in LabelTasks}
    /\ f_out = <<>>

\* mapped = mapper.map_task(task, jira_priorities); mapped.labels
ApplyMapTask ==
    /\ f_pc = "input"
    /\ ~map_task_raises(f_in)
    /\ f_out' = map_task(f_in).labels
    /\ f_pc' = "done"
    /\ UNCHANGED <<f_in, mvars, xvars>>

NextLabels == ApplyMapTask

SpecLabels == InitLabels /\ [][NextLabels]_vars

\* the position of the first occurrence of x in seq
FirstIndex(x, seq) ==
    CHOOSE n \in 1..Len(seq) : seq[n] = x /\ \A m \in 1..(n - 1) : seq[m] # x

\* out is the union of the list all: without a duplicate, without an empty
\* label, with every other label of all, in the order of first occurrence
IsOrderedUnion(out, all) ==
    /\ \A a, b \in 1..Len(out) : a # b => out[a] # out[b]
    /\ \A a \in 1..Len(out) : out[a] # <<>> /\ InSeq(out[a], all)
    /\ \A n \in 1..Len(all) : all[n] # <<>> => InSeq(all[n], out)
    /\ \A a, b \in 1..Len(out) :
           a < b => FirstIndex(out[a], all) < FirstIndex(out[b], all)

-----------------------------------------------------------------------------
(* normalize_task and the property accessors (src/extract_from_notion.py). *)
(* A JSON value is tagged: null, a string, the name of a type, a list, an  *)
(* object (its members in order), and the exception an expression raised.  *)

JNone == [t |-> "none", v |-> <<>>]
JStr(s) == [t |-> "str", v |-> s]
JAtom(a) == [t |-> "atom", v |-> a]
JList(l) == [t |-> "list", v |-> l]
JObj(members) == [t |-> "obj", v |-> members]
JRaise(e) == [t |-> "raise", v |-> e]

EmptyStr == JStr(<<>>)
EmptyObj == JObj(<<>>)

\* dict.get(k)
ObjGet(o, k) ==
    IF o.t = "obj" /\ \E n \in 1..Len(o.v) : o.v[n][1] = k
    THEN o.v[CHOOSE n \in 1..Len(o.v) : o.v[n][1] = k][2]
    ELSE JNone

\* `not v`
Falsy(v) == v.t = "none" \/ (v.t \in {"str", "list", "obj"} /\ v.v = <<>>)

\* `v or d`
OrElse(v, d) == IF v.t = "raise" THEN v ELSE IF Falsy(v) THEN d ELSE v

\* v.strip(): AttributeError on what is no string
PyStrip(v) ==
    IF v.t = "str" THEN JStr(Strip(v.v))
    ELSE IF v.t = "raise" THEN v
    ELSE JRaise("AttributeError")

\* "".join((rt.get("plain_text") or "") for rt in rich_text)
RECURSIVE JoinPlain(_)
JoinPlain(items) ==
    IF items = <<>> THEN <<>>
    ELSE OrElse(ObjGet(Head(items), "plain_text"), EmptyStr).v \o JoinPlain(Tail(items))

_plain_text(rich_text) ==
    IF Falsy(rich_text) THEN EmptyStr ELSE JStr(Strip(JoinPlain(rich_text.v)))

_get_prop(properties, name) == OrElse(ObjGet(properties, name), EmptyObj)

\* prop.get("type") == name
IsType(prop, name) == ObjGet(prop, "type").t = "atom" /\ ObjGet(prop, "type").v = name

_as_title(prop) ==
    IF IsType(prop, "title") THEN _plain_text(ObjGet(prop, "title"))
    ELSE IF IsType(prop, "rich_text") THEN _plain_text(ObjGet(prop, "rich_text"))
    ELSE EmptyStr

\* (obj.get("name") or "").strip()
NameOf(obj) == PyStrip(OrElse(ObjGet(obj, "name"), EmptyStr))

_as_select_name(prop) ==
    IF IsType(prop, "select") THEN NameOf(OrElse(ObjGet(prop, "select"), EmptyObj))
    ELSE IF IsType(prop, "status") THEN NameOf(OrElse(ObjGet(prop, "status"), EmptyObj))
    ELSE EmptyStr

\* the stripped names of the items that have one and whose stripped name is
\* not empty
RECURSIVE NamesOf(_)
NamesOf(items) ==
    IF items = <<>> THEN <<>>
    ELSE (IF ~Falsy(ObjGet(Head(items), "name")) /\ NameOf(Head(items)).v # <<>>
          THEN <<NameOf(Head(items)).v>> ELSE <<>>)
         \o NamesOf(Tail(items))

\* ", ".join(names)
RECURSIVE JoinComma(_)
JoinComma(names) ==
    IF names = <<>> THEN <<>>
    ELSE IF Len(names) = 1 THEN names[1]
    ELSE names[1] \o <<",", " ">> \o JoinComma(Tail(names))

_as_multi_select_names(prop) ==
    IF IsType(prop, "multi_select")
    THEN JStr(JoinComma(NamesOf(OrElse(ObjGet(prop, "multi_select"), JList(<<>>)).v)))
    ELSE _as_select_name(prop)

\* the loop of _as_people_names
RECURSIVE PeopleNames(_)
PeopleNames(people) ==
    IF people = <<>> THEN <<>>
    ELSE (IF NameOf(Head(people)).v # <<>> THEN <<NameOf(Head(people)).v>> ELSE <<>>)
         \o PeopleNames(Tail(people))

_as_people_names(prop) ==
    IF ~IsType(prop, "people") THEN EmptyStr
    ELSE JStr(JoinComma(PeopleNames(OrElse(ObjGet(prop, "people"), JList(<<>>)).v)))

\* _as_date_text with `d.get("start")` returned as it is
_as_date_text_unguarded(prop) ==
    IF ~IsType(prop, "date") THEN EmptyStr
    ELSE ObjGet(OrElse(ObjGet(prop, "date"), EmptyObj), "start")

_as_date_text(prop) ==
    IF ~IsType(prop, "date") THEN EmptyStr
    ELSE LET d == OrElse(ObjGet(prop, "date"), EmptyObj)
             start == PyStrip(OrElse(ObjGet(d, "start"), EmptyStr))
             end == PyStrip(OrElse(ObjGet(d, "end"), EmptyStr))
         IN IF start.v # <<>> /\ end.v # <<>> /\ end.v # start.v
            THEN JStr(start.v \o <<".", ".">> \o end.v)
            ELSE start

\* lines 420-425: the property named Title, else the first property of type title
TitleText(properties) ==
    IF ~Falsy(_as_title(_get_prop(properties, "Title")))
    THEN _as_title(_get_prop(properties, "Title"))
    ELSE IF \E n \in 1..Len(properties.v) : IsType(properties.v[n][2], "title")
         THEN _as_title(properties.v[
                  CHOOSE n \in 1..Len(properties.v) :
                      /\ IsType(properties.v[n][2], "title")
                      /\ \A m \in 1..(n - 1) : ~IsType(properties.v[m][2], "title")][2])
         ELSE _as_title(_get_prop(properties, "Title"))

\* the dict literal of lines 433-445
OutLiteral(properties, comments_text, description_text) ==
    << <<"Title", PyStrip(OrElse(TitleText(properties), EmptyStr))>>,
       <<"Status", PyStrip(_as_select_name(_get_prop(properties, "Status")))>>,
       <<"Prioritet", PyStrip(_as_select_name(_get_prop(properties, "Prioritet")))>>,
       <<"Estimater", PyStrip(_as_select_name(_get_prop(properties, "Estimater")))>>,
       <<"Tilordnet", PyStrip(_as_people_names(_get_prop(properties, "Tilordnet")))>>,
       <<"Tags", PyStrip(_as_multi_select_names(_get_prop(properties, "Tags")))>>,
       <<"Ferdigstilt", PyStrip(_as_date_text(_get_prop(properties, "Ferdigstilt")))>>,
       <<"Arkiveringsdato",
         PyStrip(_as_date_text(_get_prop(properties, "Arkiveringsdato")))>>,
       <<"Kodebase / type",
         PyStrip(_as_multi_select_names(_get_prop(properties, "Kodebase / type")))>>,
       <<"Description", PyStrip(OrElse(description_text, EmptyStr))>>,
       <<"Comments", PyStrip(OrElse(comments_text, EmptyStr))>> >>

\* normalize_task, given what the two fetches of lines 430-431 return
normalize_task(page, comments_text, description_text) ==
    LET properties == OrElse(ObjGet(page, "properties"), EmptyObj)
        has_id == ~Falsy(ObjGet(page, "id"))
        lit == OutLiteral(properties,
                          IF has_id THEN comments_text ELSE EmptyStr,
                          IF has_id THEN description_text ELSE EmptyStr)
        \* for k, v in list(out.items()): out[k] = (v or "").strip()
        out == [n \in 1..Len(lit) |-> <<lit[n][1], PyStrip(OrElse(lit[n][2], EmptyStr))>>]
    IN IF \E n \in 1..Len(out) : out[n][2].t = "raise"
       THEN out[CHOOSE n \in 1..Len(out) :
                    out[n][2].t = "raise" /\ \A m \in 1..(n - 1) : out[m][2].t # "raise"][2]
       ELSE JObj(out)

-----------------------------------------------------------------------------
(* The pages normalize_task is applied to *)

Text(s) == JObj(<< <<"plain_text", JStr(s)>> >>)
Named(s) == JObj(<< <<"name", JStr(s)>> >>)
Prop(type, value) == JObj(<< <<"type", JAtom(type)>>, <<type, value>> >>)

TitleProps ==
    { JNone,
      Prop("title", JList(<<Text(<<" ","T">>), JObj(<< <<"plain_text", JNone>> >>), Text(<<"x"," ">>)>>)),
      Prop("title", JNone),
      Prop("rich_text", JList(<<Text(<<"R">>)>>)) }

SelectProps ==
    { JNone,
      Prop("status", Named(<<"D","o","n","e"," ">>)),
      Prop("status", JNone),
      Prop("select", JObj(<< <<"name", JNone>> >>)) }

MultiProps ==
    { JNone,
      Prop("multi_select", JList(<<Named(<<"a">>), JObj(<< <<"name", JNone>> >>), Named(<<" ","b"," ">>)>>)),
      Prop("multi_select", JNone),
      Prop("select", Named(<<"o","n","e">>)) }

PeopleProps ==
    { JNone,
      Prop("people", JList(<<Named(<<" ","P"," ">>), EmptyObj, JObj(<< <<"name", JNone>> >>)>>)),
      Prop("select", Named(<<"o","n","e">>)) }

DateProps ==
    { JNone,
      Prop("date", JNone),
      Prop("date", JObj(<< <<"start", JStr(D_after)>>, <<"end", JNone>> >>)),
      Prop("date", JObj(<< <<"start", JStr(D_before)>>, <<"end", JStr(D_after)>> >>)),
      Prop("date", JObj(<< <<"start", JStr(D_after)>>, <<"end", JStr(D_after)>> >>)),
      Prop("date", JObj(<< <<"start", JNone>>, <<"end", JStr(D_after)>> >>)) }

\* the members of an object, those whose value is absent left out
RECURSIVE Present(_)
Present(members) ==
    IF members = <<>> THEN <<>>
    ELSE (IF Head(members)[2] = JNone THEN <<>> ELSE <<Head(members)>>)
         \o Present(Tail(members))

Pages ==
    { JObj(Present(<< <<"id", id>>,
                      <<"properties",
                        JObj(Present(<< <<"Name", name>>, <<"Title", title>>,
                                        <<"Status", sel>>, <<"Prioritet", sel>>,
                                        <<"Tags", multi>>, <<"Kodebase / type", multi>>,
                                        <<"Tilordnet", people>>,
                                        <<"Ferdigstilt", date>>,
                                        <<"Arkiveringsdato", date>> >>))>> >>))
        : id \in {JNone, JStr(<<"p", "1">>)},
          name \in {JNone, Prop("title", JList(<<Text(<<"N">>)>>))},
          title \in TitleProps, sel \in SelectProps, multi \in MultiProps,
          people \in PeopleProps, date \in DateProps }
    \cup {EmptyObj, JObj(<< <<"properties", JNone>> >>)}

\* what fetch_comments_text and extract_description_from_page may return
FetchedTexts == {EmptyStr, JStr(<<" ","x","\n","y"," ">>)}

InitNormalize ==
    /\ MigrateIdle /\ ExtractIdle
    /\ f_pc = "input"
    /\ f_in \in Pages
    /\ f_out = <<>>

\* normalize_task(page): the fetches of a page with an id answer or fail
ApplyNormalize ==
    /\ f_pc = "input"
    /\ \E net_ok \in BOOLEAN, c \in FetchedTexts, d \in FetchedTexts :
           f_out' = IF ~Falsy(ObjGet(f_in, "id")) /\ ~net_ok
                    THEN JRaise("RuntimeError")
                    ELSE normalize_task(f_in, c, d)
    /\ f_pc' = "done"
    /\ UNCHANGED <<f_in, mvars, xvars>>

NextNormalize == ApplyNormalize

SpecNormalize == InitNormalize /\ [][NextNormalize]_vars

\* The eleven fields of a FlatTask; the code spells the codebase field
\* "Kodebase / type"
FlatTaskFields ==
    {"Title", "Status", "Prioritet", "Estimater", "Tilordnet", "Tags", "Ferdigstilt",
     "Arkiveringsdato", "Kodebase / type", "Description", "Comments"}

\* C9: for every page, also one without properties and without id,
\* normalize_task returns a mapping with exactly the eleven fields, each a
\* string; the only exception it lets out is that of a failed fetch, for a
\* page that has an id.
C9_ElevenStrings ==
    f_pc = "done" =>
        IF f_out.t = "raise"
        THEN f_out.v = "RuntimeError" /\ ~Falsy(ObjGet(f_in, "id"))
        ELSE /\ f_out.t = "obj"
             /\ Len(f_out.v) = 11
             /\ {f_out.v[n][1] : n \in 1..Len(f_out.v)} = FlatTaskFields
             /\ \A n \in 1..Len(f_out.v) : f_out.v[n][2].t = "str"

C9_Witness ==
    /\ f_pc = "done"
    /\ f_in = EmptyObj
    /\ f_out.t = "obj"
    /\ {f_out.v[n][1] : n \in 1..Len(f_out.v)} = FlatTaskFields
    /\ \A n \in 1..Len(f_out.v) : f_out.v[n][2] = EmptyStr

------------------------------------------------------------------------------
(* Block flattening (src/extract_from_notion.py). A block is its JSON      *)
(* object together with what GET /blocks/{id}/children answers for it.     *)

MaxBlocks == 2

JBool(b) == JAtom(IF b THEN "true" ELSE "false")

\* bool(v)
Bool(v) == ~Falsy(v) /\ v # JBool(FALSE)

\* k in o
HasKey(o, k) == o.t = "obj" /\ \E n \in 1..Len(o.v) : o.v[n][1] = k

\* "[x] " if checked else "[ ] "
CheckPrefix(checked) == <<"[", IF checked THEN "x" ELSE " ", "]", " ">>

_block_text(block) ==
    LET t == ObjGet(block, "type")
    IN IF Falsy(t) THEN <<>>
       ELSE LET payload == OrElse(ObjGet(block, t.v), EmptyObj)
                text == IF HasKey(payload, "rich_text")
                        THEN _plain_text(ObjGet(payload, "rich_text")).v
                        ELSE <<>>
            IN CASE t.v = "to_do" ->
                      Strip(CheckPrefix(Bool(ObjGet(payload, "checked"))) \o text)
                 [] t.v = "bulleted_list_item" -> Strip(<<"-", " ">> \o text)
                 [] t.v = "numbered_list_item" -> Strip(<<"1", ".", " ">> \o text)
                 [] OTHER -> Strip(text)

\* n spaces
Spaces(n) == [k \in 1..n |-> " "]

\* one space per level
IndentPrefixNarrow(indent) == Spaces(indent)

\* prefix = "  " * indent
IndentPrefix(indent) == Spaces(2 * indent)

Lines(l) == [ok |-> TRUE, lines |-> l]
FetchFailed == [ok |-> FALSE, lines |-> <<>>]

\* b.get("has_children") and b.get("id"): the children are fetched
FetchesChildren(b) ==
    Bool(ObjGet(b.obj, "has_children")) /\ ~Falsy(ObjGet(b.obj, "id"))

\* The loop over blocks: the line of the block, the lines of its children one
\* level deeper, then the blocks after it. A failed fetch raises out of it.
RECURSIVE _flatten_blocks_with_children(_, _)
_flatten_blocks_with_children(blocks, indent) ==
    IF blocks = <<>> THEN Lines(<<>>)
    ELSE LET b == Head(blocks)
             txt == _block_text(b.obj)
             own == IF txt # <<>> THEN <<IndentPrefix(indent) \o txt>> ELSE <<>>
             below == IF ~FetchesChildren(b) THEN Lines(<<>>)
                      ELSE IF ~b.children.ok THEN FetchFailed
                      ELSE _flatten_blocks_with_children(b.children.blocks, indent + 1)
             after == IF below.ok
                      THEN _flatten_blocks_with_children(Tail(blocks), indent)
                      ELSE FetchFailed
         IN IF below.ok /\ after.ok
            THEN Lines(own \o below.lines \o after.lines)
            ELSE FetchFailed

(* Inputs *)

Answer(blocks) == [ok |-> TRUE, blocks |-> blocks]
NoAnswer == [ok |-> FALSE, blocks |-> <<>>]

BlockObj(type, payload, has_children, id) ==
    JObj(Present(<< <<"type", JAtom(type)>>, <<type, payload>>,
                    <<"has_children", has_children>>, <<"id", id>> >>))

RichText(s) == JObj(<< <<"rich_text", JList(<<Text(s)>>)>> >>)

O_todo_checked ==
    BlockObj("to_do",
             JObj(<< <<"rich_text", JList(<<Text(<<"a">>)>>)>>,
                     <<"checked", JBool(TRUE)>> >>),
             JBool(FALSE), JStr(<<"t">>))
O_todo_open ==
    BlockObj("to_do",
             JObj(<< <<"rich_text", JList(<<Text(<<"a", " ">>)>>)>>,
                     <<"checked", JBool(FALSE)>> >>),
             JBool(TRUE), JNone)
O_empty_paragraph == BlockObj("paragraph", RichText(<<" ">>), JNone, JStr(<<"p">>))
O_bullet == BlockObj("bulleted_list_item", RichText(<<" ", "b">>), JBool(FALSE), JStr(<<"u">>))
O_numbered == BlockObj("numbered_list_item", RichText(<<"c">>), JBool(TRUE), JStr(<<"n">>))
O_divider == BlockObj("divider", EmptyObj, JBool(TRUE), JStr(<<"d">>))
O_heading == BlockObj("heading_2", RichText(<<"H">>), JBool(TRUE), JStr(<<"h">>))
O_section == BlockObj("heading_3", RichText(<<"S">>), JBool(TRUE), JStr(<<"s">>))
O_leaf_heading == BlockObj("heading_3", RichText(<<"L">>), JBool(FALSE), JStr(<<"l">>))

Leaf(o) == [obj |-> o, children |-> Answer(<<>>)]
Node(o, answer) == [obj |-> o, children |-> answer]

Leaves == {Leaf(O_todo_checked), Leaf(O_empty_paragraph), Leaf(O_bullet)}

\* what a block at depth 1 has below it
ChildSamples ==
    { <<>>,
      <<Leaf(O_todo_checked)>>,
      <<Leaf(O_empty_paragraph), Leaf(O_todo_checked)>>,
      <<Leaf(O_bullet), Leaf(O_empty_paragraph)>> }

\* the blocks at depth 1: leaves, sections with children, an item whose
\* children cannot be read (no id), a block that says it has no children, a
\* block without text that has children, a block whose children fail to load
Level1 ==
    Leaves
    \cup {Node(O_section, Answer(kids)) : kids \in ChildSamples}
    \cup { Node(O_todo_open, Answer(<<Leaf(O_bullet)>>)),
           Node(O_leaf_heading, Answer(<<Leaf(O_bullet)>>)),
           Node(O_divider, Answer(<<Leaf(O_todo_checked)>>)),
           Node(O_numbered, NoAnswer) }

\* the blocks after the label: a heading with nested blocks, and what follows
BlockLists ==
    {<<Node(O_heading, Answer(kids))>> \o tail :
        kids \in SeqsUpTo(Level1, MaxBlocks),
        tail \in {<<>>, <<Leaf(O_bullet)>>}}

InitFlatten ==
    /\ MigrateIdle /\ ExtractIdle
    /\ f_pc = "input"
    /\ f_in \in BlockLists
    /\ f_out = <<>>

\* lines = _flatten_blocks_with_children(token, notion_version, after, indent=0)
ApplyFlatten ==
    /\ f_pc = "input"
    /\ f_out' = _flatten_blocks_with_children(f_in, 0)
    /\ f_pc' = "done"
    /\ UNCHANGED <<f_in, mvars, xvars>>

NextFlatten == ApplyFlatten

SpecFlatten == InitFlatten /\ [][NextFlatten]_vars

(* What the claim says of these inputs *)

\* the text each sample block stands for
LineRead ==
    (O_todo_checked :> <<"[", "x", "]", " ", "a">>)
    @@ (O_todo_open :> <<"[", " ", "]", " ", "a">>)
    @@ (O_empty_paragraph :> <<>>)
    @@ (O_bullet :> <<"-", " ", "b">>)
    @@ (O_numbered :> <<"1", ".", " ", "c">>)
    @@ (O_divider :> <<>>)
    @@ (O_heading :> <<"H">>)
    @@ (O_section :> <<"S">>)
    @@ (O_leaf_heading :> <<"L">>)

\* the sample blocks that say they have children and carry an id
Opened == {O_numbered, O_divider, O_heading, O_section}

\* the children the source shows for a block that is opened
ChildrenOf(b) == IF b.obj \in Opened THEN b.children.blocks ELSE <<>>

\* the positions of the tree: the index at each level, depth 0 to 2
Positions ==
    {p \in SeqsUpTo(1..MaxBlocks, 3) :
        /\ Len(p) >= 1
        /\ p[1] <= Len(f_in)
        /\ Len(p) >= 2 => p[2] <= Len(ChildrenOf(f_in[p[1]]))
        /\ Len(p) = 3 => p[3] <= Len(ChildrenOf(ChildrenOf(f_in[p[1]])[p[2]]))}

BlockAt(p) ==
    IF Len(p) = 1 THEN f_in[p[1]]
    ELSE IF Len(p) = 2 THEN ChildrenOf(f_in[p[1]])[p[2]]
    ELSE ChildrenOf(ChildrenOf(f_in[p[1]])[p[2]])[p[3]]

\* document order: an ancestor before its descendants, a block before the
\* blocks that follow it
Before(p, q) ==
    \E k \in 1..Len(q) :
        /\ \A j \in 1..(k - 1) : j <= Len(p) /\ p[j] = q[j]
        /\ \/ k = Len(p) + 1
           \/ k <= Len(p) /\ p[k] < q[k]

WithLine == {p \in Positions : LineRead[BlockAt(p).obj] # <<>>}

Rank(p) == Cardinality({q \in WithLine : Before(q, p)}) + 1

LoadFails == \E p \in Positions : BlockAt(p).obj \in Opened /\ ~BlockAt(p).children.ok

\* C11 (amended): the lines come depth-first in document order, each indented
\* by two spaces per depth level, so that a checked checklist item at depth 2
\* under a heading at depth 0 renders with four spaces; a block without text
\* gives no line, and a failed load of children fails the flattening.
C11_DepthFirstTwoSpacesPerLevel ==
    f_pc = "done" =>
        IF LoadFails THEN ~f_out.ok
        ELSE /\ f_out.ok
             /\ Len(f_out.lines) = Cardinality(WithLine)
             /\ \A p \in WithLine :
                    f_out.lines[Rank(p)]
                        = [k \in 1..(2 * (Len(p) - 1)) |-> " "] \o LineRead[BlockAt(p).obj]
             /\ \A p \in WithLine :
                    Len(p) = 3 /\ BlockAt(p).obj = O_todo_checked =>
                        f_out.lines[Rank(p)] = <<" ", " ", " ", " ", "[", "x", "]", " ", "a">>

\* C11 as stated: depth-first order, two spaces per level, and the checked
\* checklist item at depth 2 under the heading at depth 0 is the line
\* "  [x] a".
C11_Depth2RendersTwoSpaces ==
    f_pc = "done" /\ f_out.ok =>
        /\ Len(f_out.lines) = Cardinality(WithLine)
        /\ \A p \in WithLine :
               Len(p) = 3 /\ BlockAt(p).obj = O_todo_checked =>
                   f_out.lines[Rank(p)] = <<" ", " ", "[", "x", "]", " ", "a">>

\* a heading with a section that holds a checked item after a block without
\* text, followed at depth 1 and at depth 0 by further blocks
C11_Witness ==
    /\ f_pc = "done"
    /\ f_out.ok
    /\ Len(f_in) = 2
    /\ \E p \in WithLine :
          /\ Len(p) = 3 /\ p[3] = 2 /\ BlockAt(p).obj = O_todo_checked
          /\ \E q \in WithLine : Len(q) = 2 /\ Before(p, q)
    /\ Len(f_out.lines) = 5

------------------------------------------------------------------------------
(* The run-level steps of migrate_tasks, read from the log of calls *)

\* the positions in the log of the calls of an operation
CallsOf(op) == {n \in 1..Len(calls) : calls[n].op = op}

\* both names have the identifier the catalog gave
FieldIdsResolved ==
    /\ DOMAIN field_ids = {FieldNames[1], FieldNames[2]}
    /\ \A n \in DOMAIN field_ids : field_ids[n] = FieldIdOf(n)

\* the run got as far as the resolution of the field identifiers
ReachedFields ==
    pc \notin {"priorities", "fields"}
    /\ ~(pc = "failed" /\ error.at = "get_priorities")

\* C12: the two custom-field identifiers are resolved exactly once per run,
\* before the first record is processed; when a name cannot be resolved or the
\* catalog call fails the run fails before any issue is created; on success
\* every record's field update uses the same resolved identifiers.
C12_FieldIdsOncePerRun ==
    /\ [](/\ Cardinality(CallsOf("get_fields")) = (IF ReachedFields THEN 1 ELSE 0)
          /\ \A n \in 1..Len(calls) :
                 calls[n].rec >= 1 => \E g \in CallsOf("get_fields") : g < n
          /\ ~ReachedFields => i = 1 /\ mapped = NoMapped
          /\ error.at \in {"get_fields", "resolve_field_ids"} =>
                 /\ pc = "failed"
                 /\ i = 1 /\ mapped = NoMapped
                 /\ created_keys = <<>>
                 /\ \A n \in 1..Len(calls) : calls[n].rec = 0
          /\ CallsOf("create_issue") # {} => FieldIdsResolved
          /\ \A n \in CallsOf("set_issue_fields") :
                 calls[n].arg = {<<FieldIdOf("Oppgavekategori"), CONST_OPPGAVEKATEGORI>>,
                                 <<FieldIdOf("Category of work"), CONST_CATEGORY_OF_WORK>>})
    /\ [][pc # "fields" => field_ids' = field_ids]_vars

\* a run over two records that updated the fields of both
C12_Witness ==
    /\ pc = "done"
    /\ Cardinality(CallsOf("set_issue_fields")) = 2
    /\ calls[2].op = "get_fields"
    /\ FieldIdsResolved

\* the run got as far as the reading of the board
ReachedBoard ==
    pc \notin {"priorities", "fields", "board"}
    /\ ~(pc = "failed"
         /\ error.at \in {"get_priorities", "get_fields", "resolve_field_ids"})

\* C13: the rank anchor is read from the board exactly once per run, before
\* any issue of the run is created; every board placement of the run uses that
\* anchor (none when the board was empty); the anchor is never the key of an
\* issue created in the run.
C13_AnchorReadOnce ==
    /\ [](/\ Cardinality(CallsOf("get_board_issues")) = (IF ReachedBoard THEN 1 ELSE 0)
          /\ \A n \in CallsOf("create_issue") :
                 \E g \in CallsOf("get_board_issues") : g < n
          /\ \A n \in CallsOf("move_issue_to_board") :
                 /\ calls[n].arg = anchor_key
                 /\ \A k \in 1..Len(created_keys) : created_keys[k] # calls[n].arg
          /\ \A k \in 1..Len(created_keys) : created_keys[k] # anchor_key)
    /\ [][pc # "board" => anchor_key' = anchor_key]_vars

\* a run that placed two new issues before the issue the board showed first
C13_Witness ==
    /\ pc = "done"
    /\ anchor_key = 1
    /\ Cardinality(CallsOf("move_issue_to_board")) = 2
    /\ Len(created_keys) = 2

------------------------------------------------------------------------------
(* The status transition of a record, read from the log of calls *)

\* the status identifier each sample status stands for, None for a status
\* that is not recognized or is empty
TargetRead ==
    (S_Done :> "13382") @@ (S_ARCHIVED :> "13382") @@ (S_QA :> "13384")
    @@ (S_Backlog :> "13380") @@ (S_Blocked :> None) @@ (<<>> :> None)

TargetOf(r) == TargetRead[GetStr(tasks[r], "Status")]

\* the two names no sample record carries, as a source may write them
S_In_Progress == <<" ","I","n"," ","P","r","o","g","r","e","s","s">>
S_Ready == <<"R","e","a","d","y"," ","f","o","r"," ",
             "D","e","v","e","l","o","p","m","e","n","t","\n">>

CallsFor(op, r) == {n \in CallsOf(op) : calls[n].rec = r}

\* record r was placed on the board and the run has gone on to its status step
AtOrPastStatus(r) ==
    /\ ~dry_run
    /\ \/ i > r
       \/ i = r /\ pc \in {"status", "transition", "comments"}
       \/ i = r /\ pc = "failed" /\ error.at \in {"add_comment", "add_meta_comment"}

PastStatus(r) == AtOrPastStatus(r) /\ ~(i = r /\ pc = "status")

\* C14: for each record the transition lookup is attempted if and only if its
\* status, trimmed and in lower case, is one of the six known names and maps
\* to an identifier other than the backlog one; an unrecognized or empty status
\* gives no transition call, archived maps as done does, and at most one
\* transition is fired per record, to the mapped target.
C14_TransitionIffMappedAndNotBacklog ==
    [](/\ pc = "priorities" =>
              /\ map_status_id(S_In_Progress) = "13381"
              /\ map_status_id(S_Ready) = "13383"
       /\ \A r \in 1..Len(tasks) :
          /\ (i = r /\ AtOrPastStatus(r)) => mapped.target_status_id = TargetOf(r)
          /\ Cardinality(CallsFor("get_transitions", r)) <= 1
          /\ CallsFor("get_transitions", r) # {} =>
                 TargetOf(r) \notin {None, "13380"}
          /\ (PastStatus(r) /\ TargetOf(r) \notin {None, "13380"}) =>
                 CallsFor("get_transitions", r) # {}
          /\ Cardinality(CallsFor("transition", r)) <= 1
          /\ \A n \in CallsFor("transition", r) :
                 /\ calls[n].arg.to = TargetOf(r)
                 /\ \E g \in CallsFor("get_transitions", r) : g < n)

\* a run in which an archived record was moved to the status of done by the
\* first matching transition, and a record of unknown status was left alone
C14_Witness ==
    /\ pc = "done"
    /\ Len(tasks) = 2
    /\ GetStr(tasks[1], "Status") = S_ARCHIVED
    /\ \E n \in CallsFor("transition", 1) : calls[n].arg = TR_Done
    /\ GetStr(tasks[2], "Status") = S_Blocked
    /\ CallsFor("add_comment", 2) # {}
    /\ CallsFor("get_transitions", 2) = {}

------------------------------------------------------------------------------
(* A dry run *)

\* the three reads of a run, in the order of migrate_tasks
RunLevelReads == <<"get_priorities", "get_fields", "get_board_issues">>

\* C15: with dry_run set no destination write is issued for any record, the
\* only calls are the three run-level reads, every record is still mapped (a
\* record without a title raises), and the list of created keys returned is
\* empty.
C15_DryRunWritesNothing ==
    /\ [](dry_run =>
            /\ Len(calls) <= 3
            /\ \A n \in 1..Len(calls) :
                   calls[n].op = RunLevelReads[n] /\ calls[n].rec = 0
            /\ created_keys = <<>>
            /\ pc \in {"priorities", "fields", "board", "map", "done", "failed"}
            /\ pc = "done" =>
                   /\ Len(calls) = 3
                   /\ i = Len(tasks) + 1
                   /\ \A r \in 1..Len(tasks) : Strip(GetStr(tasks[r], "Title")) # <<>>
            /\ (pc = "failed" /\ error.at = "map_task") =>
                   /\ Len(calls) = 3
                   /\ Strip(GetStr(tasks[i], "Title")) = <<>>
                   /\ \A r \in 1..(i - 1) : Strip(GetStr(tasks[r], "Title")) # <<>>)
    /\ [][(dry_run /\ pc = "map" /\ i <= Len(tasks)) =>
             IF Strip(GetStr(tasks[i], "Title")) = <<>>
             THEN pc' = "failed" /\ error' = [type |-> "ValueError", at |-> "map_task"]
             ELSE /\ pc' = "map" /\ i' = i + 1
                  /\ mapped'.summary = Strip(GetStr(tasks[i], "Title"))
                  /\ calls' = calls]_vars

\* a dry run over two records that returned
C15_Witness ==
    /\ dry_run
    /\ pc = "done"
    /\ Len(tasks) = 2
    /\ mapped # NoMapped
    /\ Len(calls) = 3
    /\ created_keys = <<>>

------------------------------------------------------------------------------
(* The paginators against a source whose answers are fixed beforehand: the *)
(* n-th request gets the n-th answer. The loop of a paginator always takes  *)
(* its next iteration, which the weak fairness of the specification states. *)

\* the pages a source may answer with
SourcePages ==
    { Reply(<<"a">>, JFalse, None),          \* a last page
      Reply(<<"a">>, JTrue, "c1"),           \* more pages
      Reply(<<"b", "c">>, JTrue, "c2"),      \* more pages
      Reply(<<"a">>, JTrue, None),           \* has_more without a cursor
      HttpFailure }

InitPaginate ==
    /\ MigrateIdle /\ PureIdle
    /\ mode \in {"paginate_query", "paginate_list_endpoint"}
    /\ x_pc = "paging"
    /\ cursor = None
    /\ results = <<>>
    /\ first_error = ""
    /\ data_sources = <<>>
    /\ ds_k = 0
    /\ all_results = <<>>
    /\ x_result = <<>>
    /\ x_error = ""
    /\ requests = <<>>
    /\ responses = <<>>
    /\ source \in [1..MaxRequests -> SourcePages]

\* paginate_query, lines 37-61, answered by the source
QueryPageOfSource ==
    /\ mode = "paginate_query"
    /\ x_pc = "paging"
    /\ Len(requests) < Len(source)
    /\ PaginatorPageAnswered("query", source[Len(requests) + 1])
    /\ UNCHANGED <<mode, first_error, data_sources, ds_k, all_results>>
    /\ UNCHANGED <<mvars, fvars, source>>

\* paginate_list_endpoint, lines 173-188, answered by the source
ListPageOfSource ==
    /\ mode = "paginate_list_endpoint"
    /\ x_pc = "paging"
    /\ Len(requests) < Len(source)
    /\ PaginatorPageAnswered("list", source[Len(requests) + 1])
    /\ UNCHANGED <<mode, first_error, data_sources, ds_k, all_results>>
    /\ UNCHANGED <<mvars, fvars, source>>

NextPaginate ==
    \/ QueryPageOfSource
    \/ ListPageOfSource

SpecPaginate == InitPaginate /\ [][NextPaginate]_vars /\ WF_vars(NextPaginate)

\* a page after which no further page is asked for: it reports no more pages,
\* or gives no cursor, or the request failed
EndsPaging(r) == ~(r.ok /\ r.has_more = JTrue /\ r.next_cursor \in {"c1", "c2"})

\* the source ends the paging within the pages of the model
SourceEnds == \E n \in 1..Len(source) : EndsPaging(source[n])

Stopped == x_pc \in {"done", "failed"}

\* C16: a paginator terminates on every source in which some page reports no
\* more pages or gives no cursor; it sends one request per page consumed and
\* none after the page that ends the paging; nothing but the source stops it,
\* a cursor seen before included: against a source whose every page has more
\* pages and a cursor it goes on asking, up to any number of requests.
C16_TerminationDependsOnSource ==
    /\ SourceEnds ~> Stopped
    /\ [](/\ Len(requests) = Len(responses)
          /\ \A n \in 1..Len(responses) : responses[n] = source[n]
          /\ \A n \in 1..(Len(responses) - 1) : ~EndsPaging(responses[n])
          /\ Stopped <=> (responses # <<>> /\ EndsPaging(responses[Len(responses)])))
    /\ [][Stopped => requests' = requests]_vars
    /\ (~SourceEnds) ~> (x_pc = "paging" /\ Len(requests) = MaxRequests)

\* the paginator has asked for the same cursor twice and is still paging after
\* as many requests as the model allows
C16_Witness ==
    /\ x_pc = "paging"
    /\ Len(requests) = MaxRequests
    /\ \E a, b \in 1..Len(requests) :
          a < b /\ requests[a].cursor = "c1" /\ requests[b].cursor = "c1"

=============================================================================
